---- MODULE Spec2Model ----
(***************************************************************************)
(* Model of the two command-line scripts of the repository:                *)
(*   read_config.py  (ConfigLookup)  and  scanner.py  (ExportScanner).     *)
(* Text is a sequence of one-character strings; the two regular            *)
(* expressions of scanner.py are executed by a backtracking matcher with   *)
(* the greedy semantics of Python's re module.                             *)
(***************************************************************************)
EXTENDS Integers, Sequences, FiniteSets, TLC

(* ------------------------------ bounds -------------------------------- *)
\* longest source file, counted in catalogue items
MaxItems == 3
\* longest label list on the read_config.py command line
MaxLabels == 2
\* --version integers range over -MaxVersion .. MaxVersion
MaxVersion == 10
\* number of successive runs of the same command line
MaxRuns == 2
\* the wall clock takes the values 0 .. MaxClock
MaxClock == 1

(* --------------------------- character classes ------------------------ *)
NL == "\n"
Digits == {"0", "1", "2", "3", "4", "5", "6", "7", "8", "9"}
Letters == {"A", "B", "C", "a", "b", "c", "d", "e", "f", "g", "h", "i", "k",
            "l", "n", "o", "p", "q", "r", "s", "t", "x"}
\* \w
Word == Letters \cup Digits \cup {"_"}
\* \s
Space == {" ", NL}
Punct == {"#", "(", ")", "*", ",", ";", "{", "-", "+", "."}
Alphabet == Word \cup Space \cup Punct
\* [\w\s*]
RetClass == Word \cup Space \cup {"*"}
\* [^)]
NotRParen == Alphabet \ {")"}

(* ------------------------ regular expressions ------------------------- *)
\* an unbounded repetition count
Unbounded == 1000000

\* one pattern element: the anchor ^ or a character class repeated greedily
\* between min and max times, capturing into group grp when grp > 0
Bol == [bol |-> TRUE, cls |-> {}, min |-> 0, max |-> 0, grp |-> 0]
Rep(cls, min, max, grp) == [bol |-> FALSE, cls |-> cls, min |-> min, max |-> max, grp |-> grp]
Star(cls) == Rep(cls, 0, Unbounded, 0)
Plus(cls) == Rep(cls, 1, Unbounded, 0)
Lit(s) == [i \in 1..Len(s) |-> Rep({s[i]}, 1, 1, 0)]

NoMatch == [ok |-> FALSE, start |-> 0, end |-> 0, groups |-> <<>>]

\* the length of the longest run of characters of cls at pos, at most max
RECURSIVE RunLen(_, _, _, _)
RunLen(text, pos, cls, max) ==
  IF max = 0 \/ pos > Len(text) THEN 0
  ELSE IF text[pos] \in cls THEN 1 + RunLen(text, pos + 1, cls, max - 1)
  ELSE 0

\* ^ under re.MULTILINE: the start of the text or just after a newline
AtLineStart(text, pos) == pos = 1 \/ text[pos - 1] = NL

\* match elements k.. of pat at position pos; a greedy repetition takes the
\* longest run first and gives characters back one at a time
RECURSIVE MatchHere(_, _, _, _)
RECURSIVE Backtrack(_, _, _, _, _)
MatchHere(pat, k, text, pos) ==
  IF k > Len(pat) THEN [ok |-> TRUE, start |-> pos, end |-> pos, groups |-> <<>>]
  ELSE IF pat[k].bol
    THEN IF AtLineStart(text, pos) THEN MatchHere(pat, k + 1, text, pos) ELSE NoMatch
    ELSE Backtrack(pat, k, text, pos, RunLen(text, pos, pat[k].cls, pat[k].max))

Backtrack(pat, k, text, pos, n) ==
  IF n < pat[k].min THEN NoMatch
  ELSE LET rest == MatchHere(pat, k + 1, text, pos + n)
       IN IF rest.ok
          THEN [ok |-> TRUE, start |-> pos, end |-> rest.end,
                groups |-> IF pat[k].grp > 0
                           THEN <<SubSeq(text, pos, pos + n - 1)>> \o rest.groups
                           ELSE rest.groups]
          ELSE Backtrack(pat, k, text, pos, n - 1)

\* pattern.search(text, from): the match at the leftmost start position
search(pat, text, from) ==
  LET starts == {p \in from..(Len(text) + 1) : MatchHere(pat, 1, text, p).ok}
  IN IF starts = {} THEN NoMatch
     ELSE MatchHere(pat, 1, text, CHOOSE p \in starts : \A q \in starts : p <= q)

\* pattern.findall(text): the groups of all non-overlapping matches, left to right
RECURSIVE findall(_, _, _)
findall(pat, text, from) ==
  LET m == search(pat, text, from)
  IN IF ~m.ok THEN <<>>
     ELSE <<m.groups>> \o findall(pat, text, IF m.end > m.start THEN m.end ELSE m.end + 1)

\* str.strip()
RECURSIVE lstrip(_)
lstrip(s) == IF s # <<>> /\ Head(s) \in Space THEN lstrip(Tail(s)) ELSE s
RECURSIVE rstrip(_)
rstrip(s) == IF s # <<>> /\ s[Len(s)] \in Space THEN rstrip(SubSeq(s, 1, Len(s) - 1)) ELSE s
strip(s) == rstrip(lstrip(s))

\* re.escape(s): every character of s becomes a pattern that matches itself
re_escape(s) == Lit(s)

kw_define == <<"#", "d", "e", "f", "i", "n", "e">>
kw_declspec == <<"_", "_", "d", "e", "c", "l", "s", "p", "e", "c">>
kw_dllexport == <<"d", "l", "l", "e", "x", "p", "o", "r", "t">>

\* ^\s*#define\s+(\w+)\s+__declspec\s*\(\s*dllexport\s*\)
macro_pattern ==
  <<Bol, Star(Space)>> \o Lit(kw_define)
    \o <<Plus(Space), Rep(Word, 1, Unbounded, 1), Plus(Space)>> \o Lit(kw_declspec)
    \o <<Star(Space)>> \o Lit(<<"(">>) \o <<Star(Space)>> \o Lit(kw_dllexport)
    \o <<Star(Space)>> \o Lit(<<")">>)

\* the function pattern with whitespace and argument text that stop at a line break
func_pattern_one_line(escaped_macro) ==
  <<Bol, Star({" "})>> \o escaped_macro
    \o <<Plus({" "}), Rep(RetClass \ {NL}, 1, Unbounded, 1), Plus({" "}),
         Rep(Word, 1, Unbounded, 2), Star({" "})>> \o Lit(<<"(">>)
    \o <<Rep(NotRParen \ {NL}, 0, Unbounded, 3)>> \o Lit(<<")">>)
    \o <<Star({" "})>> \o Lit(<<"{">>)

\* ^\s*{escaped_macro}\s+([\w\s*]+)\s+(\w+)\s*\(([^)]*)\)\s*\{
func_pattern(escaped_macro) ==
  <<Bol, Star(Space)>> \o escaped_macro
    \o <<Plus(Space), Rep(RetClass, 1, Unbounded, 1), Plus(Space),
         Rep(Word, 1, Unbounded, 2), Star(Space)>> \o Lit(<<"(">>)
    \o <<Rep(NotRParen, 0, Unbounded, 3)>> \o Lit(<<")">>)
    \o <<Star(Space)>> \o Lit(<<"{">>)

\* the export records of lines 40-46
ExportRecords(found) ==
  [i \in 1..Len(found) |->
     [name |-> found[i][2], return_type |-> strip(found[i][1]), args |-> strip(found[i][3])]]

(* --------------------------- source catalogue ------------------------- *)
\* the C declarations a source file is assembled from, one item after another,
\* each followed by a newline
DefA == <<"#", "d", "e", "f", "i", "n", "e", " ", "A", " ", "_", "_", "d", "e", "c", "l", "s", "p", "e", "c", "(", "d", "l", "l", "e", "x", "p", "o", "r", "t", ")">>
DefB == <<"#", "d", "e", "f", "i", "n", "e", " ", "B", " ", "_", "_", "d", "e", "c", "l", "s", "p", "e", "c", "(", "d", "l", "l", "e", "x", "p", "o", "r", "t", ")">>
FnA == <<"A", " ", "i", "n", "t", " ", "f", "(", "i", "n", "t", " ", "x", ")", " ", "{">>
FnB == <<"B", " ", "i", "n", "t", " ", "g", "(", ")", " ", "{">>
FwdA == <<"A", " ", "i", "n", "t", " ", "h", "(", ")", ";">>
PtrA == <<"A", " ", "c", "h", "a", "r", " ", "*", "p", "(", ")", " ", "{">>
TrimA == <<"A", " ", "c", "o", "n", "s", "t", " ", "c", "h", "a", "r", " ", "*", " ", "q", "(", " ", "i", "n", "t", " ", "a", " ", ")", " ", "{">>
MultiA == <<"A", "\n", "i", "n", "t", "\n", "r", "(", "i", "n", "t", " ", "a", ",", "\n", "i", "n", "t", " ", "b", ")", " ", "{">>
EmptyDef == <<"#", "d", "e", "f", "i", "n", "e", " ", "C", "\n", "_", "_", "d", "e", "c", "l", "s", "p", "e", "c", "(", "d", "l", "l", "e", "x", "p", "o", "r", "t", ")", " ", "i", "n", "t", " ", "k", "(", ")", " ", "{">>

ItemIds == {"DefA", "DefB", "FnA", "FnB", "FwdA", "PtrA", "TrimA", "MultiA", "EmptyDef"}
ItemText ==
  [id \in ItemIds |->
     CASE id = "DefA" -> DefA
       [] id = "DefB" -> DefB
       [] id = "FnA" -> FnA
       [] id = "FnB" -> FnB
       [] id = "FwdA" -> FwdA
       [] id = "PtrA" -> PtrA
       [] id = "TrimA" -> TrimA
       [] id = "MultiA" -> MultiA
       [] id = "EmptyDef" -> EmptyDef]

RECURSIVE SourceText(_)
SourceText(items) ==
  IF items = <<>> THEN <<>> ELSE ItemText[Head(items)] \o <<NL>> \o SourceText(Tail(items))

(* ---------------------------- int(), str() ---------------------------- *)
DigitVal == [d \in Digits |->
  CASE d = "0" -> 0 [] d = "1" -> 1 [] d = "2" -> 2 [] d = "3" -> 3 [] d = "4" -> 4
    [] d = "5" -> 5 [] d = "6" -> 6 [] d = "7" -> 7 [] d = "8" -> 8 [] d = "9" -> 9]
DigitChar == [v \in 0..9 |-> CHOOSE d \in Digits : DigitVal[d] = v]

\* the decimal text of an integer, as typed on a command line or printed
RECURSIVE NatText(_)
NatText(n) == IF n < 10 THEN <<DigitChar[n]>> ELSE NatText(n \div 10) \o <<DigitChar[n % 10]>>
DecimalText(n) == IF n < 0 THEN <<"-">> \o NatText(-n) ELSE NatText(n)

\* int(s): surrounding whitespace stripped, an optional sign, then digits
\* with single underscores allowed between them
int_sign(s) == IF strip(s) # <<>> /\ Head(strip(s)) = "-" THEN -1 ELSE 1
int_body(s) ==
  IF strip(s) # <<>> /\ Head(strip(s)) \in {"+", "-"} THEN Tail(strip(s)) ELSE strip(s)
int_valid(s) ==
  LET b == int_body(s)
  IN /\ b # <<>>
     /\ \A i \in 1..Len(b) : b[i] \in Digits \cup {"_"}
     /\ b[1] # "_" /\ b[Len(b)] # "_"
     /\ \A i \in 1..(Len(b) - 1) : ~(b[i] = "_" /\ b[i + 1] = "_")
RECURSIVE int_digits(_, _)
int_digits(b, acc) ==
  IF b = <<>> THEN acc
  ELSE IF Head(b) = "_" THEN int_digits(Tail(b), acc)
  ELSE int_digits(Tail(b), 10 * acc + DigitVal[Head(b)])
py_int_abs(s) == int_digits(int_body(s), 0)
py_int(s) == int_sign(s) * int_digits(int_body(s), 0)

(* ------------------------------ inputs -------------------------------- *)
Sources == UNION {[1..n -> ItemIds] : n \in 0..MaxItems}
\* the source files the command line is varied against
SampleSources == {<<>>, <<"DefA", "FnA">>, <<"DefA", "TrimA", "FwdA">>}

SourceFile == "s.c"
OutFile == "o.json"
Paths == {"s.c", "./s.c", "no.c"}
\* the file a path names in the working directory
Resolve(path) == IF path = "./s.c" THEN SourceFile ELSE path

Required == {"version", "source", "out"}
VersionTexts ==
  {DecimalText(n) : n \in (-MaxVersion)..MaxVersion}
    \cup {<<"x">>, <<"1", ".", "5">>, <<"+", "7">>}
\* an output path in a directory that does not exist cannot be opened
OutPaths == {OutFile, "nodir/o.json"}
Cli(given, version, source, out, verbose) ==
  [given |-> given, version |-> version, source |-> source, out |-> out, verbose |-> verbose]
BaseCli == Cli(Required, <<"7">>, SourceFile, OutFile, FALSE)
AllCli ==
  {Cli(Required, v, p, o, b) : v \in VersionTexts, p \in Paths, o \in OutPaths, b \in BOOLEAN}
    \cup {Cli(Required \ {f}, <<"7">>, SourceFile, OutFile, FALSE) : f \in Required}

Line(tag, num, txt) == [tag |-> tag, num |-> num, txt |-> txt]
\* json.dump(data, f, indent=3): one line per scalar and per bracket
RECURSIVE FunctionLines(_)
FunctionLines(fs) ==
  IF fs = <<>> THEN <<>>
  ELSE <<Line("{", 0, <<>>), Line("name", 0, Head(fs).name),
         Line("return_type", 0, Head(fs).return_type),
         Line("args", 0, Head(fs).args), Line("}", 0, <<>>)>> \o FunctionLines(Tail(fs))
json_dump(d) ==
  <<Line("{", 0, <<>>), Line("schema_version", d.schema_version, <<>>),
    Line("source", 0, <<d.source>>), Line("timestamp", d.timestamp, <<>>),
    Line("exported_functions", 0, <<>>), Line("[", 0, <<>>)>>
    \o FunctionLines(d.exported_functions)
    \o <<Line("]", 0, <<>>), Line("}", 0, <<>>)>>

\* a report left at the output path by some earlier scan of another file
StaleReport ==
  json_dump([built |-> TRUE, schema_version |-> 99, source |-> "old.c", timestamp |-> 0,
             exported_functions |->
               <<[name |-> <<"a">>, return_type |-> <<"i", "n", "t">>, args |-> <<>>],
                 [name |-> <<"b">>, return_type |-> <<"i", "n", "t">>, args |-> <<>>],
                 [name |-> <<"c">>, return_type |-> <<"i", "n", "t">>, args |-> <<>>],
                 [name |-> <<"d">>, return_type |-> <<"i", "n", "t">>, args |-> <<>>],
                 [name |-> <<"e">>, return_type |-> <<"i", "n", "t">>, args |-> <<>>]>>])
NoFile == [exists |-> FALSE, lines |-> <<>>]
OutFiles == {NoFile, [exists |-> TRUE, lines |-> StaleReport]}

LabelNames == {"a", "b", "z"}
LabelLists == UNION {[1..n -> LabelNames] : n \in 0..MaxLabels}
ConfigValue == [k \in {"a", "b"} |-> IF k = "a" THEN 1 ELSE 2]
ConfigObject(keys) == [readable |-> TRUE, keys |-> keys, val |-> ConfigValue]
ConfigFiles ==
  {ConfigObject(ks) : ks \in SUBSET {"a", "b"}}
    \cup {[readable |-> FALSE, keys |-> {}, val |-> ConfigValue]}

(* ------------------------------- state -------------------------------- *)
VARIABLES
  prog,            \* which script the process runs
  pc,              \* the statement the process is at
  runs,            \* how many times the command line has been started
  clock,           \* the wall clock
  status,          \* the exit status, Running until the process ends
  stdout, stderr,
  \* read_config.py
  labels,          \* sys.argv[1:]
  config_file,     \* config.json on disk
  config,          \* the decoded object
  idx,             \* labels examined so far by the for loop
  \* scanner.py
  cli,             \* the command line
  src_items,       \* the source file on disk
  out_file,        \* the output file on disk
  run_start_out,   \* the output file as it was when the current run started
  prev_run,        \* exit status and output file at the end of the previous run
  formatted_time, args, source_code, export_macro, functions, data,
  io_trace         \* the file operations of the current run, in order

vars == <<prog, pc, runs, clock, status, stdout, stderr, labels, config_file, config, idx,
          cli, src_items, out_file, run_start_out, prev_run, formatted_time, args,
          source_code, export_macro, functions, data, io_trace>>

Running == -1
NoArgs == [parsed |-> FALSE, version |-> <<>>, source |-> "", out |-> "", verbose |-> FALSE]
NoData == [built |-> FALSE, schema_version |-> 0, source |-> "", timestamp |-> 0,
           exported_functions |-> <<>>]
NoConfig == [readable |-> FALSE, keys |-> {}, val |-> ConfigValue]
NoRun == [status |-> Running, out |-> NoFile]

\* the state of a process that has just been started
Fresh ==
  /\ status = Running /\ stdout = <<>> /\ stderr = <<>>
  /\ config = NoConfig /\ idx = 0
  /\ formatted_time = 0 /\ args = NoArgs /\ source_code = <<>> /\ export_macro = <<>>
  /\ functions = <<>> /\ data = NoData /\ io_trace = <<>>

Init ==
  /\ runs = 1 /\ clock = 0 /\ prev_run = NoRun
  /\ Fresh
  /\ \/ /\ prog = "read_config" /\ pc = "load"
        /\ labels \in LabelLists /\ config_file \in ConfigFiles
        /\ cli = BaseCli /\ src_items = <<>> /\ out_file = NoFile
     \/ /\ prog = "scanner" /\ pc = "clock"
        /\ labels = <<>> /\ config_file = NoConfig
        /\ out_file \in OutFiles
        \* every source with the base command line, every command line with
        \* the sample sources
        /\ \/ src_items \in Sources /\ cli = BaseCli
           \/ src_items \in SampleSources /\ cli \in AllCli
  /\ run_start_out = out_file

\* the process ends with exit status code; an uncaught exception is status 1
Exit(code, diagnostic) ==
  /\ pc' = "done" /\ status' = code
  /\ stderr' = IF diagnostic = "" THEN stderr ELSE Append(stderr, diagnostic)

(* --------------------------- read_config.py --------------------------- *)
LoadConfig ==
  /\ prog = "read_config" /\ pc = "load"
  /\ IF config_file.readable
     THEN /\ config' = config_file /\ pc' = "loop"
          /\ UNCHANGED <<status, stderr>>
     ELSE /\ Exit(1, "Traceback") /\ UNCHANGED config
  /\ UNCHANGED <<prog, runs, clock, stdout, labels, config_file, idx, cli, src_items,
                 out_file, run_start_out, prev_run, formatted_time, args, source_code,
                 export_macro, functions, data, io_trace>>

\* the loop with an else branch that goes on to the next label
LabelLoop_continue ==
  /\ prog = "read_config" /\ pc = "loop"
  /\ IF idx < Len(labels)
     THEN /\ idx' = idx + 1
          /\ IF labels[idx + 1] \in config.keys
             THEN /\ stdout' = Append(stdout, DecimalText(config.val[labels[idx + 1]]))
                  /\ Exit(0, "")
             ELSE /\ UNCHANGED <<stdout, pc, status, stderr>>
     ELSE /\ Exit(0, "") /\ UNCHANGED <<idx, stdout>>
  /\ UNCHANGED <<prog, runs, clock, labels, config_file, config, cli, src_items,
                 out_file, run_start_out, prev_run, formatted_time, args, source_code,
                 export_macro, functions, data, io_trace>>

\* one pass of the for loop, or the end of the script when no label is left
LabelLoop ==
  /\ prog = "read_config" /\ pc = "loop"
  /\ IF idx < Len(labels)
     THEN /\ idx' = idx + 1
          /\ IF labels[idx + 1] \in config.keys
             THEN /\ stdout' = Append(stdout, DecimalText(config.val[labels[idx + 1]]))
                  /\ Exit(0, "")
             ELSE /\ Exit(1, "") /\ UNCHANGED stdout
     ELSE /\ Exit(0, "") /\ UNCHANGED <<idx, stdout>>
  /\ UNCHANGED <<prog, runs, clock, labels, config_file, config, cli, src_items,
                 out_file, run_start_out, prev_run, formatted_time, args, source_code,
                 export_macro, functions, data, io_trace>>

(* ----------------------------- scanner.py ----------------------------- *)
Timestamp ==
  /\ prog = "scanner" /\ pc = "clock"
  /\ formatted_time' = clock
  /\ pc' = "argparse"
  /\ UNCHANGED <<prog, runs, clock, status, stdout, stderr, labels, config_file, config,
                 idx, cli, src_items, out_file, run_start_out, prev_run, args,
                 source_code, export_macro, functions, data, io_trace>>

ParseArgs ==
  /\ prog = "scanner" /\ pc = "argparse"
  /\ IF Required \subseteq cli.given
     THEN /\ args' = [parsed |-> TRUE, version |-> cli.version, source |-> cli.source,
                      out |-> cli.out, verbose |-> cli.verbose]
          /\ pc' = "read"
          /\ UNCHANGED <<status, stderr>>
     ELSE /\ Exit(2, "usage") /\ UNCHANGED args
  /\ UNCHANGED <<prog, runs, clock, stdout, labels, config_file, config, idx, cli,
                 src_items, out_file, run_start_out, prev_run, formatted_time,
                 source_code, export_macro, functions, data, io_trace>>

ReadSource ==
  /\ prog = "scanner" /\ pc = "read"
  /\ IF Resolve(args.source) = SourceFile
     THEN /\ source_code' = SourceText(src_items)
          /\ io_trace' = Append(io_trace, "read_source")
          /\ pc' = "macro"
          /\ UNCHANGED <<status, stderr>>
     ELSE /\ Exit(1, "FileNotFoundError") /\ UNCHANGED <<source_code, io_trace>>
  /\ UNCHANGED <<prog, runs, clock, stdout, labels, config_file, config, idx, cli,
                 src_items, out_file, run_start_out, prev_run, formatted_time, args,
                 export_macro, functions, data>>

FindMacro ==
  /\ prog = "scanner" /\ pc = "macro"
  /\ LET match == search(macro_pattern, source_code, 1)
     IN IF match.ok
        THEN /\ export_macro' = match.groups[1]
             /\ pc' = "funcs"
             /\ UNCHANGED <<status, stderr>>
        ELSE /\ Exit(1, "RuntimeError") /\ UNCHANGED export_macro
  /\ UNCHANGED <<prog, runs, clock, stdout, labels, config_file, config, idx, cli,
                 src_items, out_file, run_start_out, prev_run, formatted_time, args,
                 source_code, functions, data, io_trace>>

FindFunctions ==
  /\ prog = "scanner" /\ pc = "funcs"
  /\ functions' = ExportRecords(findall(func_pattern(re_escape(export_macro)), source_code, 1))
  /\ pc' = "data"
  /\ UNCHANGED <<prog, runs, clock, status, stdout, stderr, labels, config_file, config,
                 idx, cli, src_items, out_file, run_start_out, prev_run, formatted_time,
                 args, source_code, export_macro, data, io_trace>>

\* the report assembled inside the with block, after the output file is opened
BuildData_late ==
  /\ prog = "scanner" /\ pc = "data"
  /\ IF int_valid(args.version)
     THEN /\ data' = [built |-> TRUE, schema_version |-> py_int(args.version),
                      source |-> args.source, timestamp |-> formatted_time,
                      exported_functions |-> functions]
          /\ pc' = "open"
          /\ UNCHANGED <<status, stderr, out_file, io_trace>>
     ELSE /\ out_file' = [exists |-> TRUE, lines |-> <<>>]
          /\ io_trace' = Append(io_trace, "open_out")
          /\ Exit(1, "ValueError") /\ UNCHANGED data
  /\ UNCHANGED <<prog, runs, clock, stdout, labels, config_file, config, idx, cli,
                 src_items, run_start_out, prev_run, formatted_time, args,
                 source_code, export_macro, functions>>

BuildData ==
  /\ prog = "scanner" /\ pc = "data"
  /\ IF int_valid(args.version)
     THEN /\ data' = [built |-> TRUE, schema_version |-> py_int(args.version),
                      source |-> args.source, timestamp |-> formatted_time,
                      exported_functions |-> functions]
          /\ pc' = "open"
          /\ UNCHANGED <<status, stderr>>
     ELSE /\ Exit(1, "ValueError") /\ UNCHANGED data
  /\ UNCHANGED <<prog, runs, clock, stdout, labels, config_file, config, idx, cli,
                 src_items, out_file, run_start_out, prev_run, formatted_time, args,
                 source_code, export_macro, functions, io_trace>>

\* the output file opened without truncation
OpenOut_keep ==
  /\ prog = "scanner" /\ pc = "open"
  /\ IF args.out = OutFile
     THEN /\ out_file' = [exists |-> TRUE, lines |-> out_file.lines]
          /\ io_trace' = Append(io_trace, "open_out")
          /\ pc' = "dump"
          /\ UNCHANGED <<status, stderr>>
     ELSE /\ Exit(1, "FileNotFoundError") /\ UNCHANGED <<out_file, io_trace>>
  /\ UNCHANGED <<prog, runs, clock, stdout, labels, config_file, config,
                 idx, cli, src_items, run_start_out, prev_run, formatted_time, args,
                 source_code, export_macro, functions, data>>

\* open(args.out, "w"): the file is created or truncated
OpenOut ==
  /\ prog = "scanner" /\ pc = "open"
  /\ IF args.out = OutFile
     THEN /\ out_file' = [exists |-> TRUE, lines |-> <<>>]
          /\ io_trace' = Append(io_trace, "open_out")
          /\ pc' = "dump"
          /\ UNCHANGED <<status, stderr>>
     ELSE /\ Exit(1, "FileNotFoundError") /\ UNCHANGED <<out_file, io_trace>>
  /\ UNCHANGED <<prog, runs, clock, stdout, labels, config_file, config,
                 idx, cli, src_items, run_start_out, prev_run, formatted_time, args,
                 source_code, export_macro, functions, data>>

\* text written from offset 0 over what the file holds
WriteFromStart(old, new) == new \o SubSeq(old, Len(new) + 1, Len(old))

Dump ==
  /\ prog = "scanner" /\ pc = "dump"
  /\ out_file' = [exists |-> TRUE, lines |-> WriteFromStart(out_file.lines, json_dump(data))]
  /\ io_trace' = Append(io_trace, "write_out")
  /\ pc' = "verbose"
  /\ UNCHANGED <<prog, runs, clock, status, stdout, stderr, labels, config_file, config,
                 idx, cli, src_items, run_start_out, prev_run, formatted_time, args,
                 source_code, export_macro, functions, data>>

Verbose ==
  /\ prog = "scanner" /\ pc = "verbose"
  /\ stdout' = IF args.verbose
               THEN stdout \o <<<<"Writing ">> \o DecimalText(Len(functions))
                                  \o <<" functions to ", args.out>>,
                                <<"[VERBOSE] File scanned for functions: ", args.source>>>>
               ELSE stdout
  /\ pc' = "done" /\ status' = 0
  /\ UNCHANGED <<prog, runs, clock, stderr, labels, config_file, config, idx, cli,
                 src_items, out_file, run_start_out, prev_run, formatted_time, args,
                 source_code, export_macro, functions, data, io_trace>>

\* the same command line is started again, later, on the same files
Restart ==
  /\ pc = "done" /\ runs < MaxRuns
  /\ runs' = runs + 1
  /\ \E later \in clock..MaxClock : clock' = later
  /\ prev_run' = [status |-> status, out |-> out_file]
  /\ run_start_out' = out_file
  /\ pc' = IF prog = "scanner" THEN "clock" ELSE "load"
  /\ status' = Running /\ stdout' = <<>> /\ stderr' = <<>>
  /\ config' = NoConfig /\ idx' = 0
  /\ formatted_time' = 0 /\ args' = NoArgs /\ source_code' = <<>> /\ export_macro' = <<>>
  /\ functions' = <<>> /\ data' = NoData /\ io_trace' = <<>>
  /\ UNCHANGED <<prog, labels, config_file, cli, src_items, out_file>>

Next ==
  \/ LoadConfig \/ LabelLoop
  \/ Timestamp \/ ParseArgs \/ ReadSource \/ FindMacro \/ FindFunctions
  \/ BuildData \/ OpenOut \/ Dump \/ Verbose
  \/ Restart

Spec == Init /\ [][Next]_vars

(* ------------------- what the catalogue items declare ------------------ *)
\* read off the C text of each item: a macro definition, a function
\* definition (its macro, name, return type and argument text), a forward
\* declaration, or something else.  glued: no whitespace between the return
\* type and the name; multiline: a line break inside the declaration.
Declares(kind, macro, name, return_type, arglist, glued, multiline) ==
  [kind |-> kind, macro |-> macro, name |-> name, return_type |-> return_type,
   args |-> arglist, glued |-> glued, multiline |-> multiline]
t_int == <<"i", "n", "t">>
Decl ==
  [id \in ItemIds |->
     CASE id = "DefA" -> Declares("macro", <<"A">>, <<>>, <<>>, <<>>, FALSE, FALSE)
       [] id = "DefB" -> Declares("macro", <<"B">>, <<>>, <<>>, <<>>, FALSE, FALSE)
       [] id = "FnA" -> Declares("def", <<"A">>, <<"f">>, t_int, <<"i", "n", "t", " ", "x">>, FALSE, FALSE)
       [] id = "FnB" -> Declares("def", <<"B">>, <<"g">>, t_int, <<>>, FALSE, FALSE)
       [] id = "FwdA" -> Declares("fwd", <<"A">>, <<"h">>, t_int, <<>>, FALSE, FALSE)
       [] id = "PtrA" -> Declares("def", <<"A">>, <<"p">>, <<"c", "h", "a", "r", " ", "*">>, <<>>, TRUE, FALSE)
       [] id = "TrimA" -> Declares("def", <<"A">>, <<"q">>,
                                   <<"c", "o", "n", "s", "t", " ", "c", "h", "a", "r", " ", "*">>,
                                   <<"i", "n", "t", " ", "a">>, FALSE, FALSE)
       [] id = "MultiA" -> Declares("def", <<"A">>, <<"r">>, t_int,
                                    <<"i", "n", "t", " ", "a", ",", "\n", "i", "n", "t", " ", "b">>,
                                    FALSE, TRUE)
       [] id = "EmptyDef" -> Declares("other", <<>>, <<"k">>, t_int, <<>>, FALSE, FALSE)]

RecordOf(id) == [name |-> Decl[id].name, return_type |-> Decl[id].return_type, args |-> Decl[id].args]
RECURSIVE RecordsOf(_)
RecordsOf(ids) == IF ids = <<>> THEN <<>> ELSE <<RecordOf(Head(ids))>> \o RecordsOf(Tail(ids))
Occurrences(seq, x) == Cardinality({i \in DOMAIN seq : seq[i] = x})
Elems(seq) == {seq[i] : i \in DOMAIN seq}

\* the lines of a text that are, on their own, an export-macro definition
LineEnd(text, s) ==
  LET nls == {e \in s..Len(text) : text[e] = NL}
  IN IF nls = {} THEN Len(text) ELSE (CHOOSE e \in nls : \A f \in nls : e <= f) - 1
MacroLineStarts(text) ==
  {s \in 1..Len(text) :
     /\ AtLineStart(text, s)
     /\ MatchHere(macro_pattern, 1, SubSeq(text, s, LineEnd(text, s)), 1).ok}
HasMacroLine(items) == MacroLineStarts(SourceText(items)) # {}
FirstMacroLineIdent(items) ==
  LET text == SourceText(items)
      s == CHOOSE x \in MacroLineStarts(text) : \A y \in MacroLineStarts(text) : x <= y
  IN MatchHere(macro_pattern, 1, SubSeq(text, s, LineEnd(text, s)), 1).groups[1]

\* a declaration with its line breaks replaced by spaces
OneLine(s) == [i \in DOMAIN s |-> IF s[i] = NL THEN " " ELSE s[i]]
OneLineRecord(r) ==
  [name |-> r.name, return_type |-> OneLine(r.return_type), args |-> OneLine(r.args)]
RECURSIVE OneLineSourceText(_)
OneLineSourceText(items) ==
  IF items = <<>> THEN <<>>
  ELSE (IF Decl[Head(items)].kind = "def" /\ Decl[Head(items)].multiline
        THEN OneLine(ItemText[Head(items)]) ELSE ItemText[Head(items)])
         \o <<NL>> \o OneLineSourceText(Tail(items))

Scanning == prog = "scanner"
Looking == prog = "read_config"
Discovered == Scanning /\ pc \in {"data", "open", "dump", "verbose", "done"} /\ export_macro # <<>>
Finished == pc = "done"
Written == Scanning /\ "write_out" \in Elems(io_trace)
FieldLine(lines, tag) == lines[CHOOSE i \in DOMAIN lines : lines[i].tag = tag]
MaskTimestamp(lines) ==
  [i \in DOMAIN lines |-> IF lines[i].tag = "timestamp" THEN Line("timestamp", 0, <<>>) ELSE lines[i]]

(* ------------------------------- claims -------------------------------- *)

\* C1: with a non-empty label list and a readable config object the first
\* label alone decides: its value is printed and the exit status is 0 when it
\* is a key, nothing is printed and the exit status is 1 when it is not; no
\* later label is examined.
C1_FirstLabelDecides ==
  (Looking /\ labels # <<>> /\ config_file.readable) =>
    /\ idx <= 1
    /\ Finished =>
         /\ idx = 1
         /\ IF labels[1] \in config_file.keys
            THEN stdout = <<DecimalText(config_file.val[labels[1]])>> /\ status = 0
            ELSE stdout = <<>> /\ status = 1
C1_Witness ==
  /\ Looking /\ Finished /\ labels = <<"z", "a">> /\ "a" \in config_file.keys
  /\ config_file.readable /\ status = 1 /\ stdout = <<>>

\* C2: for every label list, empty or not, exit status 0 means that a
\* supplied label was found and its value printed; no run ends with status 0
\* and empty standard output.
C2_ExitZeroMeansPrinted ==
  (Looking /\ Finished /\ status = 0) =>
    /\ stdout # <<>>
    /\ \E i \in DOMAIN labels : labels[i] \in config_file.keys

\* C3: a source file with no line of the shape #define IDENT
\* __declspec(dllexport) makes the scanner end with a non-zero status, and the
\* output path is never opened for writing: the output file stays as it was.
C3_NoMacroLineFails ==
  (Scanning /\ ~HasMacroLine(src_items)) =>
    /\ "open_out" \notin Elems(io_trace)
    /\ out_file = run_start_out
    /\ Finished => status # 0

\* C4: for a source with at least one export-macro definition, the report's
\* exported_functions is, in order of appearance, one record per function
\* definition prefixed by the identifier of the first macro definition, with
\* trimmed return type and arguments; forward declarations and definitions
\* prefixed by a later macro give no record; with no such definition the list
\* is empty and the run ends with status 0.
C4_ReportListsDefinitions ==
  (Scanning /\ Finished /\ cli = BaseCli /\ HasMacroLine(src_items)) =>
    /\ status = 0
    /\ data.exported_functions =
         RecordsOf(SelectSeq(src_items,
                             LAMBDA id : /\ Decl[id].kind = "def"
                                         /\ ~Decl[id].glued
                                         /\ Decl[id].macro = FirstMacroLineIdent(src_items)))
    /\ out_file.lines = json_dump(data)

\* C5: the function pattern is confined to one line: a macro-prefixed
\* declaration with a line break between the macro token and the closing
\* parenthesis of its argument list produces no export record.
C5_MultiLineNotMatched ==
  Discovered =>
    \A id \in ItemIds : Decl[id].multiline =>
      \A i \in DOMAIN functions : functions[i].name # Decl[id].name

\* C5 as amended: only the anchor of the function pattern is line-oriented.
\* A line break between the macro and the return type, between the return
\* type and the name, or inside the argument list is matched as ordinary
\* whitespace: the scan gives the records it gives for the same declarations
\* written on one line, except that the argument text keeps its line break.
C5_LineBreaksAreWhitespace ==
  Discovered =>
    [i \in DOMAIN functions |-> OneLineRecord(functions[i])]
      = ExportRecords(findall(func_pattern(re_escape(export_macro)),
                              OneLineSourceText(src_items), 1))
C5_Witness ==
  /\ Discovered /\ Finished /\ status = 0
  /\ "MultiA" \in Elems(src_items)
  /\ RecordOf("MultiA") \in Elems(functions)

\* C6: every macro-prefixed function definition whose return type is a run of
\* word characters, whitespace and *, with or without whitespace between the *
\* and the function name, yields exactly one export record with the function
\* name and the trimmed return type.
C6_PointerReturnTypes ==
  Discovered =>
    \A id \in Elems(src_items) :
      (/\ Decl[id].kind = "def" /\ Decl[id].macro = export_macro
       /\ Elems(Decl[id].return_type) \subseteq RetClass) =>
        Cardinality({i \in DOMAIN functions :
                       /\ functions[i].name = Decl[id].name
                       /\ functions[i].return_type = Decl[id].return_type})
          = Occurrences(src_items, id)

\* C7: in every report written, schema_version is the integer given as
\* --version, zero and negative integers included, and source is the --source
\* path exactly as given.
C7_VersionAndSourceEcho ==
  Written =>
    /\ \A n \in (-MaxVersion)..MaxVersion :
         cli.version = DecimalText(n) => FieldLine(out_file.lines, "schema_version").num = n
    /\ FieldLine(out_file.lines, "source").txt = <<cli.source>>
C7_Witness ==
  /\ Written /\ Finished /\ cli.version = DecimalText(-MaxVersion) /\ cli.source = "./s.c"
  /\ FieldLine(out_file.lines, "schema_version").num < 0

\* C8: a missing or invalid argument, a --version value that is not an
\* integer included, is rejected by argument parsing with exit status 2,
\* before the source file is read and before any discovery.
C8_BadArgsRejectedAtParsing ==
  (Scanning /\ (~(Required \subseteq cli.given) \/ ~int_valid(cli.version))) =>
    /\ "read_source" \notin Elems(io_trace)
    /\ export_macro = <<>>
    /\ Finished => status = 2

\* C9: a second run of the same command line on the same source leaves the
\* output file equal to the first run's report in every field but the
\* timestamp, and the file holds exactly the second run's report: nothing is
\* appended and nothing of an earlier, longer file is left.
C9_SecondRunReplacesReport ==
  (Scanning /\ Finished /\ status = 0) =>
    /\ out_file.exists
    /\ out_file.lines = json_dump(data)
    /\ (runs >= 2 /\ prev_run.status = 0) =>
         MaskTimestamp(out_file.lines) = MaskTimestamp(prev_run.out.lines)
C9_Witness ==
  /\ Scanning /\ Finished /\ status = 0 /\ runs = 2 /\ prev_run.status = 0
  /\ functions # <<>>
  /\ out_file.lines # prev_run.out.lines

====
